---- MODULE Spec2Model ----
(***************************************************************************)
(* Directive parser and template-merge engine of wolfdevmail/public:       *)
(*   src/webui/app/backend/open_webui/routers/images.py   (parse_prompt)   *)
(*   src/confyui/basedir/custom_nodes/FTC/src/nodes.py    (the FTC nodes)  *)
(*                                                                         *)
(* A Python str is a sequence of one-character strings.  The character     *)
(* U+2014 (em dash) is written EmDash.  A typed Python value is a record   *)
(* [t |-> "str" | "int" | "float", v |-> ...].                             *)
(***************************************************************************)
EXTENDS Integers, Sequences, FiniteSets, TLC

VARIABLES
    op,            \* the entry point this run calls
    prompt,        \* argument of parse_prompt
    templates,     \* the files under JSON_DIR: template name -> content
    pp,            \* what parse_prompt did and returned
    command_text,  \* argument of TextCommandParser.parse_text
    pt,            \* what parse_text did and returned
    file_value,    \* argument of _load_file_as_base64
    lf,            \* what _load_file_as_base64 did and returned
    base_path,     \* argument of sanitize_base_path, of get_unique_path and
                   \* (as filename_prefix) of the save nodes
    san,           \* what sanitize_base_path did and returned
    fs,            \* the paths os.path.exists finds
    gu,            \* get_unique_path: its locals and what it returned
    sv,            \* a save node: its locals and what it wrote
    peer           \* a second save that runs at the same time: its op, sv and gu

vars == <<op, prompt, templates, pp, command_text, pt, file_value, lf,
          base_path, san, fs, gu, sv, peer>>

----------------------------------------------------------------------------
(* Characters *)

EmDash == "EM"

LowerCase == <<"a", "b", "c", "d", "e", "f", "g", "h", "i", "j", "k", "l", "m",
               "n", "o", "p", "q", "r", "s", "t", "u", "v", "w", "x", "y", "z">>

UpperCase == <<"A", "B", "C", "D", "E", "F", "G", "H", "I", "J", "K", "L", "M",
               "N", "O", "P", "Q", "R", "S", "T", "U", "V", "W", "X", "Y", "Z">>

Range(f) == {f[i] : i \in DOMAIN f}

Letters == Range(LowerCase) \cup Range(UpperCase)

Digits == {"0", "1", "2", "3", "4", "5", "6", "7", "8", "9"}

\* \w of the re module
IsWord(c) == c \in Letters \cup Digits \cup {"_"}

\* \s of the re module, and what str.strip() removes
Whitespace == {" ", "\t", "\n"}

DigitVal(c) ==
    CASE c = "0" -> 0 [] c = "1" -> 1 [] c = "2" -> 2 [] c = "3" -> 3
      [] c = "4" -> 4 [] c = "5" -> 5 [] c = "6" -> 6 [] c = "7" -> 7
      [] c = "8" -> 8 [] c = "9" -> 9

DigitChar(n) ==
    CASE n = 0 -> "0" [] n = 1 -> "1" [] n = 2 -> "2" [] n = 3 -> "3"
      [] n = 4 -> "4" [] n = 5 -> "5" [] n = 6 -> "6" [] n = 7 -> "7"
      [] n = 8 -> "8" [] n = 9 -> "9"

----------------------------------------------------------------------------
(* str helpers *)

RECURSIVE LStrip(_, _)
LStrip(s, chars) ==
    IF s # <<>> /\ Head(s) \in chars THEN LStrip(Tail(s), chars) ELSE s

RECURSIVE RStrip(_, _)
RStrip(s, chars) ==
    IF s # <<>> /\ s[Len(s)] \in chars
    THEN RStrip(SubSeq(s, 1, Len(s) - 1), chars)
    ELSE s

\* str.strip(chars); str.strip() is Strip(s, Whitespace)
Strip(s, chars) == RStrip(LStrip(s, chars), chars)

StartsWith(s, p) == Len(s) >= Len(p) /\ SubSeq(s, 1, Len(p)) = p

\* index just past the whitespace run that starts at i
RECURSIVE RunEnd(_, _)
RunEnd(s, i) ==
    IF i <= Len(s) /\ s[i] \in Whitespace THEN RunEnd(s, i + 1) ELSE i

\* re.sub(r"\s{2,}", " ", s)
RECURSIVE CollapseFrom(_, _, _)
CollapseFrom(s, i, acc) ==
    IF i > Len(s) THEN acc
    ELSE IF RunEnd(s, i) >= i + 2
         THEN CollapseFrom(s, RunEnd(s, i), Append(acc, " "))
         ELSE CollapseFrom(s, i + 1, Append(acc, s[i]))

CollapseSpaces(s) == CollapseFrom(s, 1, <<>>)

----------------------------------------------------------------------------
(* PATTERN = (?:--|EmDash)(\w+)(?:[ =](.*?))?(?=(?:--|EmDash)|$) *)

\* length of the delimiter at i, 0 when there is none
DelimLen(s, i) ==
    IF i + 1 <= Len(s) /\ s[i] = "-" /\ s[i + 1] = "-" THEN 2
    ELSE IF i <= Len(s) /\ s[i] = EmDash THEN 1
    ELSE 0

\* $ without re.MULTILINE: the end, or just before a final newline
AtEnd(s, i) == i = Len(s) + 1 \/ (i = Len(s) /\ s[i] = "\n")

\* (?=(?:--|EmDash)|$)
Lookahead(s, i) == DelimLen(s, i) > 0 \/ AtEnd(s, i)

\* \w+ is greedy; a shorter key is followed by a word character, where
\* neither [ =] nor the lookahead can match, so only the longest key counts
RECURSIVE KeyEnd(_, _)
KeyEnd(s, j) == IF j <= Len(s) /\ IsWord(s[j]) THEN KeyEnd(s, j + 1) ELSE j

\* (.*?) is lazy and "." takes no newline: the first e >= j where the
\* lookahead holds, 0 when a newline or the end comes first
RECURSIVE ValueEnd(_, _)
ValueEnd(s, e) ==
    IF Lookahead(s, e) THEN e
    ELSE IF e > Len(s) \/ s[e] = "\n" THEN 0
    ELSE ValueEnd(s, e + 1)

NoMatch == [ok |-> FALSE, key |-> <<>>, value |-> <<>>, end |-> 0]

\* PATTERN.match(s, i - 1); groups that took no part are "" as in findall
MatchAt(s, i) ==
    LET d  == DelimLen(s, i)
        ks == i + d
        ke == KeyEnd(s, ks)
        ve == IF ke <= Len(s) /\ s[ke] \in {" ", "="}
              THEN ValueEnd(s, ke + 1) ELSE 0
    IN  IF d = 0 \/ ke = ks THEN NoMatch
        ELSE IF ve # 0
             THEN [ok |-> TRUE, key |-> SubSeq(s, ks, ke - 1),
                   value |-> SubSeq(s, ke + 1, ve - 1), end |-> ve]
        ELSE IF Lookahead(s, ke)
             THEN [ok |-> TRUE, key |-> SubSeq(s, ks, ke - 1),
                   value |-> <<>>, end |-> ke]
        ELSE NoMatch

\* one left-to-right scan: the matches and the text between them
RECURSIVE ScanFrom(_, _, _, _)
ScanFrom(s, i, found, rest) ==
    IF i > Len(s) THEN [found |-> found, rest |-> rest]
    ELSE LET m == MatchAt(s, i)
         IN  IF m.ok
             THEN ScanFrom(s, m.end, Append(found, <<m.key, m.value>>), rest)
             ELSE ScanFrom(s, i + 1, found, Append(rest, s[i]))

\* PATTERN.findall(s)
FindAll(s) == ScanFrom(s, 1, <<>>, <<>>).found

\* PATTERN.sub("", s)
SubEmpty(s) == ScanFrom(s, 1, <<>>, <<>>).rest

\* PATTERN.search(s) is not None
Search(s) == \E i \in 1..Len(s) : MatchAt(s, i).ok

\* re.sub(r"\s{2,}", " ", PATTERN.sub("", s).strip()).strip()
Residual(s) ==
    Strip(CollapseSpaces(Strip(SubEmpty(s), Whitespace)), Whitespace)

\* the first occurrence of a key keeps its value
RECURSIVE FirstWins(_, _)
FirstWins(found, acc) ==
    IF found = <<>> THEN acc
    ELSE LET k == Head(found)[1]
             v == Strip(Head(found)[2], Whitespace)
         IN  FirstWins(Tail(found),
                 [x \in DOMAIN acc \cup {k} |-> IF x \in DOMAIN acc THEN acc[x] ELSE v])

\* {k: (v.strip() if v else "") for k, v in PATTERN.findall(s)}: a later
\* occurrence of a key replaces the value of an earlier one
RECURSIVE OverridesOf(_, _)
OverridesOf(found, acc) ==
    IF found = <<>> THEN acc
    ELSE LET k == Head(found)[1]
             v == Strip(Head(found)[2], Whitespace)
         IN  OverridesOf(Tail(found),
                 [x \in DOMAIN acc \cup {k} |-> IF x = k THEN v ELSE acc[x]])

EmptyDict == [x \in {} |-> <<>>]

Overrides(s) == OverridesOf(FindAll(s), EmptyDict)

----------------------------------------------------------------------------
(* Typed values: int(), float(), str() and their formatting in an f-string *)

StrV(s) == [t |-> "str", v |-> s]

IntV(n) == [t |-> "int", v |-> n]

\* a float with a finite decimal expansion: m / 10^e, m with no trailing
\* zero digit unless e = 0
RECURSIVE Normalised(_, _)
Normalised(m, e) ==
    IF e > 0 /\ m % 10 = 0 THEN Normalised(m \div 10, e - 1)
    ELSE [m |-> m, e |-> e]

FloatV(m, e) == [t |-> "float", v |-> Normalised(m, e)]

RECURSIVE DigitsValue(_, _)
DigitsValue(s, acc) ==
    IF s = <<>> THEN acc
    ELSE IF Head(s) = "_" THEN DigitsValue(Tail(s), acc)
    ELSE DigitsValue(Tail(s), 10 * acc + DigitVal(Head(s)))

Unsigned(s) == IF s # <<>> /\ Head(s) \in {"+", "-"} THEN Tail(s) ELSE s

Signed(s, n) == IF s # <<>> /\ Head(s) = "-" THEN 0 - n ELSE n

\* digits, with single underscores allowed between two digits
IsDigitString(s) ==
    /\ s # <<>>
    /\ \A i \in 1..Len(s) : s[i] \in Digits \cup {"_"}
    /\ s[1] # "_" /\ s[Len(s)] # "_"
    /\ \A i \in 1..(Len(s) - 1) : ~(s[i] = "_" /\ s[i + 1] = "_")

\* int(s): [ok |-> FALSE] stands for ValueError
IntParse(s) ==
    LET w == Strip(s, Whitespace)
    IN  IF IsDigitString(Unsigned(w))
        THEN [ok |-> TRUE, v |-> Signed(w, DigitsValue(Unsigned(w), 0))]
        ELSE [ok |-> FALSE, v |-> 0]

RECURSIVE IndexOf(_, _, _)
IndexOf(s, c, i) ==
    IF i > Len(s) THEN 0 ELSE IF s[i] = c THEN i ELSE IndexOf(s, c, i + 1)

RECURSIVE Pow10(_)
Pow10(e) == IF e = 0 THEN 1 ELSE 10 * Pow10(e - 1)

\* float(s) on decimal literals: digits, digits.digits, digits. and .digits
\* (the exponent, inf and nan forms are not drawn as inputs)
FloatParse(s) ==
    LET w    == Strip(s, Whitespace)
        u    == Unsigned(w)
        dot  == IndexOf(u, ".", 1)
        ip   == IF dot = 0 THEN u ELSE SubSeq(u, 1, dot - 1)
        fp   == IF dot = 0 THEN <<>> ELSE SubSeq(u, dot + 1, Len(u))
        good == /\ ip # <<>> \/ fp # <<>>
                /\ ip = <<>> \/ IsDigitString(ip)
                /\ fp = <<>> \/ IsDigitString(fp)
        frac == Len(SelectSeq(fp, LAMBDA c : c # "_"))
    IN  IF good
        THEN [ok |-> TRUE,
              v  |-> Normalised(Signed(w, DigitsValue(ip, 0) * Pow10(frac)
                                          + DigitsValue(fp, 0)), frac)]
        ELSE [ok |-> FALSE, v |-> Normalised(0, 0)]

RECURSIVE NatFormat(_)
NatFormat(n) ==
    IF n < 10 THEN <<DigitChar(n)>>
    ELSE Append(NatFormat(n \div 10), DigitChar(n % 10))

\* str(n) of an int
IntFormat(n) == IF n < 0 THEN <<"-">> \o NatFormat(0 - n) ELSE NatFormat(n)

RECURSIVE ZeroPad(_, _)
ZeroPad(s, width) == IF Len(s) >= width THEN s ELSE ZeroPad(<<"0">> \o s, width)

\* str(x) of a float: always a "." and at least one digit after it
FloatFormat(f) ==
    LET a    == IF f.m < 0 THEN 0 - f.m ELSE f.m
        sign == IF f.m < 0 THEN <<"-">> ELSE <<>>
    IN  IF f.e = 0 THEN sign \o NatFormat(a) \o <<".", "0">>
        ELSE sign \o NatFormat(a \div Pow10(f.e)) \o <<".">>
                  \o ZeroPad(NatFormat(a % Pow10(f.e)), f.e)

\* a float is written without its fraction, as "%d" would
FormatIntegral(val) ==
    CASE val.t = "str"   -> val.v
      [] val.t = "int"   -> IntFormat(val.v)
      [] val.t = "float" -> IntFormat(val.v.m \div Pow10(val.v.e))

\* f"{v}"
Format(val) ==
    CASE val.t = "str"   -> val.v
      [] val.t = "int"   -> IntFormat(val.v)
      [] val.t = "float" -> FloatFormat(val.v)

\* a failed conversion falls back to zero instead of keeping the entry
ResetOnFailure(old, raw) == IF old.t = "int" THEN IntV(0) ELSE old

\* the except (ValueError, TypeError) branch: "pass", the entry is kept
KeepOnFailure(old, raw) == old

\* final_dict[key] = expected_type(value) inside the try
Coerce(old, raw) ==
    CASE old.t = "str"   -> StrV(raw)
      [] old.t = "int"   -> IF IntParse(raw).ok THEN IntV(IntParse(raw).v)
                            ELSE KeepOnFailure(old, raw)
      [] old.t = "float" -> IF FloatParse(raw).ok
                            THEN [t |-> "float", v |-> FloatParse(raw).v]
                            ELSE KeepOnFailure(old, raw)

\* no "if key in final_dict": a key the table lacks is added as a string
MergeAnyKey(dict, overrides) ==
    [k \in DOMAIN dict \cup DOMAIN overrides |->
        IF k \notin DOMAIN dict THEN StrV(overrides[k])
        ELSE IF k \in DOMAIN overrides THEN Coerce(dict[k], overrides[k])
        ELSE dict[k]]

\* for key, value in overrides.items(): if key in final_dict: ...
MergeOverrides(dict, overrides) ==
    [k \in DOMAIN dict |->
        IF k \in DOMAIN overrides THEN Coerce(dict[k], overrides[k]) ELSE dict[k]]

----------------------------------------------------------------------------
(* str.split, str.join, str.lower, str.replace *)

RECURSIVE SplitFrom(_, _, _, _, _)
SplitFrom(s, seps, i, cur, parts) ==
    IF i > Len(s) THEN Append(parts, cur)
    ELSE IF s[i] \in seps THEN SplitFrom(s, seps, i + 1, <<>>, Append(parts, cur))
    ELSE SplitFrom(s, seps, i + 1, Append(cur, s[i]), parts)

\* s.split(c)
SplitOn(s, c) == SplitFrom(s, {c}, 1, <<>>, <<>>)

\* s.split(): runs of whitespace separate, no empty words
SplitWords(s) == SelectSeq(SplitFrom(s, Whitespace, 1, <<>>, <<>>), LAMBDA w : w # <<>>)

RECURSIVE Join(_, _)
Join(parts, sep) ==
    IF parts = <<>> THEN <<>>
    ELSE IF Len(parts) = 1 THEN parts[1]
    ELSE parts[1] \o sep \o Join(Tail(parts), sep)

LowerChar(c) ==
    IF c \in Range(UpperCase)
    THEN LowerCase[CHOOSE i \in DOMAIN UpperCase : UpperCase[i] = c]
    ELSE c

Lower(s) == [i \in 1..Len(s) |-> LowerChar(s[i])]

Replace(s, from, to) == [i \in 1..Len(s) |-> IF s[i] = from THEN to ELSE s[i]]

----------------------------------------------------------------------------
(* os.path on POSIX *)

Slash == <<"/">>

RECURSIVE NormComps(_, _, _)
NormComps(comps, rooted, new) ==
    IF comps = <<>> THEN new
    ELSE LET c == Head(comps)
         IN  IF c = <<>> \/ c = <<".">> THEN NormComps(Tail(comps), rooted, new)
             ELSE IF c # <<".", ".">>
                     \/ (~rooted /\ new = <<>>)
                     \/ (new # <<>> /\ new[Len(new)] = <<".", ".">>)
                  THEN NormComps(Tail(comps), rooted, Append(new, c))
             ELSE IF new # <<>>
                  THEN NormComps(Tail(comps), rooted, SubSeq(new, 1, Len(new) - 1))
             ELSE NormComps(Tail(comps), rooted, new)

\* os.path.normpath
Normpath(p) ==
    LET rooted == StartsWith(p, Slash)
        lead   == IF StartsWith(p, <<"/", "/">>) /\ ~StartsWith(p, <<"/", "/", "/">>)
                  THEN <<"/", "/">>
                  ELSE IF rooted THEN Slash ELSE <<>>
        path   == lead \o Join(NormComps(SplitOn(p, "/"), rooted, <<>>), Slash)
    IN  IF path = <<>> THEN <<".">> ELSE path

\* os.path.basename
Basename(p) == LET parts == SplitOn(p, "/") IN parts[Len(parts)]

\* os.path.dirname
Dirname(p) ==
    LET head == SubSeq(p, 1, Len(p) - Len(Basename(p)))
    IN  IF head # <<>> /\ RStrip(head, {"/"}) # <<>> THEN RStrip(head, {"/"}) ELSE head

\* os.path.join(a, b)
PathJoin(a, b) ==
    IF StartsWith(b, Slash) THEN b
    ELSE IF a = <<>> \/ a[Len(a)] = "/" THEN a \o b
    ELSE a \o Slash \o b

\* os.path.abspath of an absolute path
Abspath(p) == Normpath(p)

PathComps(p) == SelectSeq(SplitOn(p, "/"), LAMBDA c : c # <<>> /\ c # <<".">>)

RECURSIVE CommonPrefix(_, _)
CommonPrefix(a, b) ==
    IF a = <<>> \/ b = <<>> \/ Head(a) # Head(b) THEN <<>>
    ELSE <<Head(a)>> \o CommonPrefix(Tail(a), Tail(b))

\* os.path.commonpath([a, b]) of two absolute paths
Commonpath(a, b) == Slash \o Join(CommonPrefix(PathComps(a), PathComps(b)), Slash)

----------------------------------------------------------------------------
(* The keys of final_dict, and the size key *)

K_pos == <<"p", "o", "s">>

K_pos_ == <<"p", "o", "s", "_">>

K_neg == <<"n", "e", "g">>

K_neg_ == <<"n", "e", "g", "_">>

K_model == <<"m", "o", "d", "e", "l">>

K_seed == <<"s", "e", "e", "d">>

K_steps == <<"s", "t", "e", "p", "s">>

K_width == <<"w", "i", "d", "t", "h">>

K_height == <<"h", "e", "i", "g", "h", "t">>

K_count == <<"c", "o", "u", "n", "t">>

K_length == <<"l", "e", "n", "g", "t", "h">>

K_cfg == <<"c", "f", "g">>

K_file == <<"f", "i", "l", "e">>

K_tokens == <<"t", "o", "k", "e", "n", "s">>

K_size == <<"s", "i", "z", "e">>

\* /app/backend/data/json_templates/
JSON_DIR ==
    <<"/", "a", "p", "p", "/", "b", "a", "c", "k", "e", "n", "d", "/", "d",
      "a", "t", "a", "/", "j", "s", "o", "n", "_", "t", "e", "m", "p", "l",
      "a", "t", "e", "s", "/">>

\* .json
DotJson ==
    <<".", "j", "s", "o", "n">>

\* txt2img.json
Txt2imgJson ==
    <<"t", "x", "t", "2", "i", "m", "g", ".", "j", "s", "o", "n">>

\* /basedir/output
OutputRoot ==
    <<"/", "b", "a", "s", "e", "d", "i", "r", "/", "o", "u", "t", "p", "u",
      "t">>

\* http://
HttpPrefix ==
    <<"h", "t", "t", "p", ":", "/", "/">>

\* https://
HttpsPrefix ==
    <<"h", "t", "t", "p", "s", ":", "/", "/">>

\* the default of "file" in parse_text
NodeFileDefault ==
    <<"h", "t", "t", "p", "s", ":", "/", "/", "u", "p", "l", "o", "a", "d",
      ".", "w", "i", "k", "i", "m", "e", "d", "i", "a", ".", "o", "r", "g",
      "/", "w", "i", "k", "i", "p", "e", "d", "i", "a", "/", "c", "o", "m",
      "m", "o", "n", "s", "/", "t", "h", "u", "m", "b", "/", "1", "/", "1",
      "5", "/", "C", "a", "t", "_", "A", "u", "g", "u", "s", "t", "_", "2",
      "0", "1", "0", "-", "4", ".", "j", "p", "g", "/", "1", "9", "2", "0",
      "p", "x", "-", "C", "a", "t", "_", "A", "u", "g", "u", "s", "t", "_",
      "2", "0", "1", "0", "-", "4", ".", "j", "p", "g">>

----------------------------------------------------------------------------
(* dict literals *)

DictOf(pairs) ==
    [k \in {pairs[i][1] : i \in DOMAIN pairs} |->
        pairs[CHOOSE i \in DOMAIN pairs : pairs[i][1] = k][2]]

KeysOf(pairs) == [i \in DOMAIN pairs |-> pairs[i][1]]

\* final_dict of parse_prompt as written, in insertion order
PromptDefaultItems ==
    << <<K_pos_, StrV(<<>>)>>, <<K_neg, StrV(<<>>)>>, <<K_neg_, StrV(<<>>)>>,
       <<K_model, StrV(<<>>)>>, <<K_seed, IntV(0 - 1)>>, <<K_steps, IntV(4)>>,
       <<K_width, IntV(512)>>, <<K_height, IntV(512)>>, <<K_count, IntV(1)>>,
       <<K_length, IntV(80)>>, <<K_cfg, FloatV(10, 1)>>, <<K_file, StrV(<<>>)>>,
       <<K_tokens, IntV(512)>> >>

PromptDefaults == DictOf(PromptDefaultItems)

PromptKeys == KeysOf(PromptDefaultItems)

\* final_dict of parse_text as written
NodeDefaultItems ==
    << <<K_pos, StrV(<<>>)>>, <<K_pos_, StrV(<<>>)>>, <<K_neg, StrV(<<>>)>>,
       <<K_neg_, StrV(<<>>)>>, <<K_model, StrV(<<>>)>>, <<K_seed, IntV(0)>>,
       <<K_steps, IntV(20)>>, <<K_width, IntV(512)>>, <<K_height, IntV(512)>>,
       <<K_count, IntV(1)>>, <<K_length, IntV(80)>>, <<K_cfg, FloatV(10, 1)>>,
       <<K_file, StrV(NodeFileDefault)>>, <<K_tokens, IntV(512)>> >>

NodeDefaults == DictOf(NodeDefaultItems)

\* the order of the tuple parse_text returns
ReturnKeys ==
    <<K_pos, K_neg, K_model, K_seed, K_steps, K_width, K_height, K_count,
      K_length, K_cfg, K_file, K_tokens>>

\* random.randint(0, 2**31 - 1) draws from 0..MaxSeed
MaxSeed == 2147483647

----------------------------------------------------------------------------
(* The template directory and the documents in it *)

\* a file of the directory is one of
\*   [kind |-> "object", doc |-> nodes]   a JSON object, nodes in file order
\*   [kind |-> "array"]                   valid JSON that is a list
\*   [kind |-> "malformed"]               not JSON: json.JSONDecodeError
\*   [kind |-> "directory"]               open() raises IsADirectoryError
\* and a node is [id, isdict, class_type, inputs]

Anchor == "TextCommandParser"

AnchorNode(id, text) ==
    [id |-> id, isdict |-> TRUE, class_type |-> Anchor,
     inputs |-> [command_text |-> text]]

OtherNode(id, class, text) ==
    [id |-> id, isdict |-> TRUE, class_type |-> class, inputs |-> [text |-> text]]

ScalarNode(id) ==
    [id |-> id, isdict |-> FALSE, class_type |-> "", inputs |-> [text |-> <<>>]]

\* files that exist next to the template directory, not inside it
\* /app/backend/data/secret.json
OutsideFiles ==
    {<<"/", "a", "p", "p", "/", "b", "a", "c", "k", "e", "n", "d", "/", "d",
       "a", "t", "a", "/", "s", "e", "c", "r", "e", "t", ".", "j", "s", "o",
       "n">>}

Missing == [kind |-> "missing"]

\* what the file system holds at a path (the kernel resolves . and ..)
FileAt(path, dir) ==
    LET n == Normpath(path)
    IN  IF Dirname(n) = Normpath(JSON_DIR)
        THEN IF Basename(n) \in DOMAIN dir THEN dir[Basename(n)] ELSE Missing
        ELSE IF n \in OutsideFiles
             THEN [kind |-> "object", doc |-> <<AnchorNode("1", <<>>)>>]
             ELSE Missing

\* os.path.exists
Exists(path, dir) == FileAt(path, dir).kind # "missing"

----------------------------------------------------------------------------
(* parse_prompt *)

\* no guard: every candidate goes on to the os.path.exists test
AnyCandidate(candidate) == TRUE

\* os.path.basename(candidate) == candidate
IsOwnBasename(candidate) == Basename(candidate) = candidate

\* the choice of json_filename from the first word of the prompt
SelectTemplate(p, dir) ==
    LET words     == SplitWords(Strip(p, Whitespace))
        candidate == IF words = <<>> THEN <<>> ELSE Strip(words[1], Whitespace)
        taken     == /\ words # <<>>
                     /\ IsOwnBasename(candidate)
                     /\ Exists(PathJoin(JSON_DIR, candidate \o DotJson), dir)
    IN  [taken         |-> taken,
         candidate     |-> candidate,
         json_filename |-> IF taken THEN candidate \o DotJson ELSE Txt2imgJson,
         prompt        |-> IF taken THEN Join(Tail(words), <<" ">>) ELSE p]

\* what open() and json.load() raise on a file, "" when they succeed
LoadException(f) ==
    CASE f.kind = "missing"   -> "FileNotFoundError"
      [] f.kind = "malformed" -> "JSONDecodeError"
      [] f.kind = "directory" -> "IsADirectoryError"
      [] OTHER                -> ""

\* except (json.JSONDecodeError, FileNotFoundError): template = {}
LoadCatches(exc) == exc \in {"JSONDecodeError", "FileNotFoundError"}

\* template after the try statement; raised is the exception that escapes it
LoadTemplate(json_path, dir) ==
    LET f   == FileAt(json_path, dir)
        exc == LoadException(f)
    IN  IF exc # ""
        THEN [raised  |-> IF LoadCatches(exc) THEN "" ELSE exc,
              mapping |-> TRUE, doc |-> <<>>]
        ELSE [raised  |-> "", mapping |-> f.kind = "object",
              doc     |-> IF f.kind = "object" THEN f.doc ELSE <<>>]

IsAnchor(node) ==
    /\ node.isdict
    /\ node.class_type = Anchor
    /\ "command_text" \in DOMAIN node.inputs

\* the loop over template.values(): the last anchor's command_text stays
RECURSIVE DefaultPromptOf(_, _)
DefaultPromptOf(doc, acc) ==
    IF doc = <<>> THEN acc
    ELSE DefaultPromptOf(Tail(doc),
             IF IsAnchor(Head(doc)) THEN Head(doc).inputs.command_text ELSE acc)

DefaultPrompt(doc) == DefaultPromptOf(doc, <<>>)

\* the "size" step
ApplySize(dict, overrides) ==
    IF K_size \notin DOMAIN overrides THEN dict
    ELSE LET parts == SplitOn(Lower(overrides[K_size]), "x")
         IN  IF Len(parts) # 2 THEN dict
             ELSE IF ~IntParse(parts[1]).ok THEN dict
             ELSE IF ~IntParse(parts[2]).ok
                  THEN [dict EXCEPT ![K_width] = IntV(IntParse(parts[1]).v)]
             ELSE [dict EXCEPT ![K_width]  = IntV(IntParse(parts[1]).v),
                               ![K_height] = IntV(IntParse(parts[2]).v)]

\* the "seed" step; rnd is what random.randint returns
ResolveSeed(dict, rnd) ==
    IF K_seed \notin DOMAIN dict THEN dict
    ELSE IF dict[K_seed].v = 0 - 1 THEN [dict EXCEPT ![K_seed] = IntV(rnd)]
    ELSE dict

\* only the entries that differ from their default are written
DirectivesChanged(dict) ==
    LET keys == SelectSeq(PromptKeys, LAMBDA k : dict[k] # PromptDefaults[k])
    IN  Join([i \in DOMAIN keys |->
                 <<"-", "-">> \o keys[i] \o <<" ">> \o Format(dict[keys[i]])],
             <<" ">>)

\* " ".join(f"--{k} {v}" for k, v in final_dict.items())
Directives(dict) ==
    Join([i \in DOMAIN PromptKeys |->
             <<"-", "-">> \o PromptKeys[i] \o <<" ">> \o Format(dict[PromptKeys[i]])],
         <<" ">>)

\* prompt + " " + " ".join(...)
Reconstruct(text, dict) == text \o <<" ">> \o Directives(dict)

\* the second loop over template.values()
UpdateTemplate(doc, text) ==
    [i \in DOMAIN doc |->
        IF IsAnchor(doc[i]) THEN [doc[i] EXCEPT !.inputs.command_text = text]
        ELSE doc[i]]

RECURSIVE DumpNodes(_)
DumpNodes(doc) ==
    IF doc = <<>> THEN <<>>
    ELSE LET n == Head(doc)
         IN  (IF n.isdict
              THEN <<n.id, ":", "{", "class_type", ":", n.class_type, "inputs", ":",
                     [i \in DOMAIN n.inputs |-> n.inputs[i]], "}">>
              ELSE <<n.id, ":", "0">>)
             \o (IF Len(doc) > 1 THEN <<",">> ELSE <<>>) \o DumpNodes(Tail(doc))

\* json.dumps(template, indent=2, ensure_ascii=False), as JSON tokens
Dumps(doc) == <<"{">> \o DumpNodes(doc) \o <<"}">>

NoResult == [done |-> FALSE, raised |-> ""]

\* pass 2 begins again from the defaults of the table
PassTwoFresh(defaults, base) == defaults

\* pass 2 writes into the final_dict pass 1 has written into
PassTwoBase(defaults, base) == base

\* the size step reads the size of the template when the user gives none
SizeOfEither(first, second) ==
    IF K_size \in DOMAIN second \/ K_size \notin DOMAIN first THEN second
    ELSE [k \in DOMAIN second \cup {K_size} |->
             IF k = K_size THEN first[K_size] ELSE second[k]]

\* line 92 binds the name overrides again: the size step reads the
\* directives of the user prompt, those of the template are gone
SizeOverrides(first, second) == second

\* parse_prompt up to and including the "size" step
MergePrompt(p, dir) ==
    LET sel       == SelectTemplate(p, dir)
        json_path == PathJoin(JSON_DIR, sel.json_filename)
        ld        == LoadTemplate(json_path, dir)
        default   == DefaultPrompt(ld.doc)
        first     == Overrides(default)
        base      == MergeOverrides(PromptDefaults, first)
        overrides == Overrides(sel.prompt)
        merged    == MergeOverrides(PassTwoBase(PromptDefaults, base), overrides)
        common    == [done |-> TRUE, taken |-> sel.taken,
                      candidate |-> sel.candidate,
                      json_filename |-> sel.json_filename,
                      opened |-> Normpath(json_path),
                      stripped |-> sel.prompt]
    IN  IF ld.raised # ""
        THEN common @@ [raised |-> ld.raised]
        ELSE IF ~ld.mapping
        THEN common @@ [raised |-> "AttributeError"]
        ELSE common @@
             [raised    |-> "",
              loaded    |-> ld.doc,
              default   |-> default,
              first     |-> first,
              base      |-> base,
              overrides |-> overrides,
              merged    |-> merged,
              sized     |-> ApplySize(merged, SizeOverrides(first, overrides)),
              prompt    |-> Residual(sel.prompt)]

\* the "seed" step, the update of the template and the return
FinishPrompt(m, rnd) ==
    IF m.raised # "" THEN m
    ELSE LET final    == ResolveSeed(m.sized, rnd)
             template == UpdateTemplate(m.loaded, Reconstruct(m.prompt, final))
         IN  m @@ [final_dict  |-> final,
                   template    |-> template,
                   json_result |-> Dumps(template)]

\* parse_prompt(prompt) with the template directory dir
ParsePromptRun(p, dir, rnd) == FinishPrompt(MergePrompt(p, dir), rnd)

----------------------------------------------------------------------------
(* TextCommandParser._load_file_as_base64 *)

B64Alphabet ==
    UpperCase \o LowerCase
       \o <<"0", "1", "2", "3", "4", "5", "6", "7", "8", "9", "+", "/">>

\* base64.b64encode(bytes).decode("utf-8")
RECURSIVE B64Encode(_)
B64Encode(bytes) ==
    IF bytes = <<>> THEN <<>>
    ELSE LET n  == Len(bytes)
             b1 == bytes[1]
             b2 == IF n >= 2 THEN bytes[2] ELSE 0
             b3 == IF n >= 3 THEN bytes[3] ELSE 0
         IN  << B64Alphabet[(b1 \div 4) + 1],
                B64Alphabet[((b1 % 4) * 16 + (b2 \div 16)) + 1],
                IF n >= 2 THEN B64Alphabet[((b2 % 16) * 4 + (b3 \div 64)) + 1] ELSE "=",
                IF n >= 3 THEN B64Alphabet[(b3 % 64) + 1] ELSE "=" >>
             \o (IF n > 3 THEN B64Encode(SubSeq(bytes, 4, n)) ELSE <<>>)

\* base64.b64decode(s, validate=True) raises nothing
IsBase64(s) ==
    LET data == RStrip(s, {"="})
        n    == Len(data)
        pad  == Len(s) - n
    IN  /\ \A i \in 1..n : data[i] \in Range(B64Alphabet)
        /\ \/ n % 4 = 0 /\ (pad = 0 \/ n > 0)
           \/ n % 4 = 2 /\ pad = 2
           \/ n % 4 = 3 /\ pad = 1

\* the local file system the node runs on: /tmp is a directory, /tmp/x a
\* readable file holding the bytes of "img"
LocalKind(path) ==
    CASE path = <<"/", "t", "m", "p", "/", "x">> -> "file"
      [] path = <<"/", "t", "m", "p">>           -> "directory"
      [] OTHER                                   -> "missing"

LocalBytes == <<105, 109, 103>>

\* what the GET of a URL can come to
NetOutcomes == {"ConnectionError", "Timeout", "HTTPError", "not_image", "image"}

\* no handler: the exception leaves _load_file_as_base64
Reraise(exc) == [ret |-> <<>>, raised |-> exc]

\* except Exception ...: return ""
ExceptException(exc) == [ret |-> <<>>, raised |-> ""]

\* a read error goes on to the base64 form
ReadErrorFallsThrough(value, exc) ==
    (IF IsBase64(value) THEN [ret |-> value, raised |-> ""]
     ELSE ExceptException("binascii.Error"))
    @@ [tried |-> <<"exists", "open", "b64decode">>]

\* the except of the local file case: the read error ends the resolution
ReadError(value, exc) ==
    ExceptException(exc) @@ [tried |-> <<"exists", "open">>]

\* no resolution: the value is returned as it was given
ReturnAsGiven(value, net) ==
    [ret |-> value, raised |-> "", tried |-> <<>>, net |-> "none"]

\* tried lists the resolution steps that ran, in order
LoadFileAsBase64(value, net) ==
    IF value = <<>>
    THEN [ret |-> <<>>, raised |-> "", tried |-> <<>>, net |-> "none"]
    ELSE IF StartsWith(value, HttpPrefix) \/ StartsWith(value, HttpsPrefix)
    THEN (IF net \in {"ConnectionError", "Timeout", "HTTPError"}
          THEN ExceptException(net)
          ELSE IF net = "not_image" THEN [ret |-> <<>>, raised |-> ""]
          ELSE [ret |-> B64Encode(LocalBytes), raised |-> ""])
         @@ [tried |-> <<"get">>, net |-> net]
    ELSE IF LocalKind(value) # "missing"
    THEN (IF LocalKind(value) = "directory"
          THEN ReadError(value, "IsADirectoryError")
          ELSE [ret |-> B64Encode(LocalBytes), raised |-> ""])
         @@ [tried |-> <<"exists", "open">>, net |-> "none"]
    ELSE (IF IsBase64(value)
          THEN [ret |-> value, raised |-> ""]
          ELSE ExceptException("binascii.Error"))
         @@ [tried |-> <<"exists", "b64decode">>, net |-> "none"]

----------------------------------------------------------------------------
(* TextCommandParser.parse_text *)

\* ", ".join([a, b]).strip(", ")
JoinStrip(a, b) == Strip(a \o <<",", " ">> \o b, {",", " "})

\* the two "if final_dict[...]" lines after the merge loop
AppendFields(dict) ==
    LET d1 == IF dict[K_pos_].v # <<>>
              THEN [dict EXCEPT ![K_pos] = StrV(JoinStrip(dict[K_pos].v, dict[K_pos_].v))]
              ELSE dict
    IN  IF d1[K_neg_].v # <<>>
        THEN [d1 EXCEPT ![K_neg] = StrV(JoinStrip(d1[K_neg].v, d1[K_neg_].v))]
        ELSE d1

\* parse_text up to the call of _load_file_as_base64
MergeText(text) ==
    LET overrides == Overrides(text)
        start     == [NodeDefaults EXCEPT ![K_pos] = StrV(Residual(text))]
        merged    == MergeOverrides(start, overrides)
    IN  [done |-> TRUE, text |-> text, overrides |-> overrides,
         start |-> start, merged |-> merged, appended |-> AppendFields(merged)]

\* the call of _load_file_as_base64 and the return; net is the outcome of
\* the GET, if one is made
ResolveFile(m, net) ==
    LET load  == LoadFileAsBase64(m.appended[K_file].v, net)
        final == [m.appended EXCEPT ![K_file] = StrV(load.ret)]
    IN  m @@ [raised |-> load.raised, load |-> load, final_dict |-> final,
              ret |-> [i \in DOMAIN ReturnKeys |-> final[ReturnKeys[i]]]]

\* parse_text(command_text)
ParseTextRun(text, net) == ResolveFile(MergeText(text), net)

----------------------------------------------------------------------------
(* sanitize_base_path *)

SanitizeRun(path) ==
    LET normal   == Replace(Normpath(path), "\\", "/")
        prefixed == IF ~StartsWith(normal, OutputRoot)
                    THEN PathJoin(OutputRoot, LStrip(normal, {"/"}))
                    ELSE normal
        abs_path == Abspath(prefixed)
        allowed_root == Abspath(OutputRoot)
    IN  IF Commonpath(abs_path, allowed_root) # allowed_root
        THEN [done |-> TRUE, raised |-> "ValueError", ret |-> <<>>]
        ELSE [done |-> TRUE, raised |-> "", ret |-> abs_path]

----------------------------------------------------------------------------
(* get_unique_path and the save nodes *)

RECURSIVE LastIndexOf(_, _, _)
LastIndexOf(s, c, i) ==
    IF i = 0 THEN 0 ELSE IF s[i] = c THEN i ELSE LastIndexOf(s, c, i - 1)

\* os.path.splitext: the extension starts at the last dot of the last
\* component, unless only dots come before it there
Splitext(p) ==
    LET sep == LastIndexOf(p, "/", Len(p))
        dot == LastIndexOf(p, ".", Len(p))
    IN  IF dot > sep /\ \E i \in (sep + 1)..(dot - 1) : p[i] # "."
        THEN [root |-> SubSeq(p, 1, dot - 1), ext |-> SubSeq(p, dot, Len(p))]
        ELSE [root |-> p, ext |-> <<>>]

\* the suffix goes after the extension
SuffixAfterExt(base, counter, ext) ==
    base \o ext \o <<"(">> \o IntFormat(counter) \o <<")">>

\* f"{base}({counter}){ext}"
UniqueCandidate(base, counter, ext) ==
    base \o <<"(">> \o IntFormat(counter) \o <<")">> \o ext

NoCall ==
    [pc |-> "idle", path |-> <<>>, base |-> <<>>, ext |-> <<>>,
     unique_path |-> <<>>, counter |-> 0, rets |-> <<>>]

\* get_unique_path(path) up to the while statement
UniqueCall(path) ==
    gu' = [gu EXCEPT !.pc = "loop", !.path = path,
                     !.base = Splitext(path).root, !.ext = Splitext(path).ext,
                     !.unique_path = path, !.counter = 1]

\* datetime.now().strftime("%Y-%m-%d_%H-%M-%S"), one value of it
Timestamp ==
    <<"2", "0", "2", "6", "-", "0", "1", "-", "0", "2", "_",
      "0", "3", "-", "0", "4", "-", "0", "5">>

SaveOps == {"save_text", "save_image", "save_video"}

\* if not ext: ext = ...
DefaultExt(o) ==
    CASE o = "save_text"  -> <<".", "t", "x", "t">>
      [] o = "save_image" -> <<".", "p", "n", "g">>
      [] o = "save_video" -> <<".", "m", "p", "4">>

\* the argument of get_unique_path, item idx of n
SaveName(o, root, idx, n, ext) ==
    IF o = "save_video"
    THEN root \o <<"_">> \o Timestamp
              \o (IF n > 1 THEN <<"_">> \o IntFormat(idx) ELSE <<>>) \o ext
    ELSE root \o <<"_">> \o Timestamp \o <<"_">> \o IntFormat(idx) \o ext

\* os.makedirs(os.path.dirname(path), exist_ok=True): the directories made
RECURSIVE Ancestors(_)
Ancestors(path) ==
    IF Dirname(path) = path \/ Dirname(path) = <<>> THEN {}
    ELSE {Dirname(path)} \cup Ancestors(Dirname(path))

NoSave ==
    [pc |-> "idle", n |-> 0, ndim |-> 0, idx |-> 0, root |-> <<>>,
     ext |-> <<>>, written |-> <<>>, raised |-> ""]

\* no second save
NoPeer == [op |-> "none", sv |-> NoSave, gu |-> NoCall]

----------------------------------------------------------------------------
(* Inputs *)

\* the number of pieces a prompt or command text is put together from
MaxPieces == 2

\* the length of the texts the tokenizer is run on character by character
MaxLen == 4

\* the number of parts of a file value, and of segments of a path
MaxParts == 2

MaxSegments == 3

\* all sequences of at most n members of S
SeqsUpTo(S, n) == UNION {[1..k -> S] : k \in 0..n}

\* the texts made of at most n pieces, sep between them
TextsOf(pieces, n, sep) == {Join(ps, sep) : ps \in SeqsUpTo(pieces, n)}

\* free text and directives, well formed and not
MergePieces ==
    { <<"a", " ", "c", "a", "t">>,
      <<"-", "-", "s", "t", "e", "p", "s", " ", "3", "0">>,
      <<"-", "-", "s", "t", "e", "p", "s", " ", "a", "b", "c">>,
      <<"-", "-", "s", "e", "e", "d", " ", "-", "1">>,
      <<"-", "-", "s", "e", "e", "d", " ", "7">>,
      <<"-", "-", "c", "f", "g", " ", "2", ".", "5">>,
      <<"-", "-", "s", "i", "z", "e", " ", "6", "4", "0", "x", "4", "8", "0">>,
      <<"-", "-", "s", "i", "z", "e", " ", "6", "4", "0", "x", "a", "b", "c">>,
      <<"-", "-", "s", "i", "z", "e", " ", "n", "o", "t", "a", "n", "u", "m", "b", "e", "r">>,
      <<"-", "-", "p", "o", "s", " ", "b", "a", "s", "e">>,
      <<"-", "-", "p", "o", "s", "_", " ", "e", "x", "t", "r", "a">>,
      <<"-", "-", "n", "e", "g", " ", "b", "a", "d">>,
      <<"-", "-", "n", "e", "g">>,
      <<"-", "-", "n", "e", "g", "_", " ", "w", "o", "r", "s", "e">>,
      <<"-", "-", "b", "o", "g", "u", "s", " ", "5">>,
      <<"-", "-", "s", "t", "e", "p", "s", "\t", "\t", "3", "0">>,
      <<"-", "-", "f", "i", "l", "e", " ", "/", "t", "m", "p", "/", "x">> }

MergeTexts == TextsOf(MergePieces, MaxPieces, <<" ">>)

\* what the anchor of the template holds as command_text:
\* --steps 8 --neg tmpl --size 64x64 --cfg abc
AnchorTexts ==
    { <<"-", "-", "s", "t", "e", "p", "s", " ", "8", " ", "-", "-", "n", "e", "g", " ", "t", "m", "p", "l", " ", "-", "-", "s", "i", "z", "e", " ", "6", "4", "x", "6", "4", " ", "-", "-", "c", "f", "g", " ", "a", "b", "c">> }

\* a template directory holding txt2img.json with the anchor text
DirWithAnchor(text) ==
    [f \in {Txt2imgJson} |->
        [kind |-> "object",
         doc  |-> <<OtherNode("3", "KSampler", <<"x">>), AnchorNode("6", text)>>]]

MergeDirs == {DirWithAnchor(t) : t \in AnchorTexts}

\* one-character texts: the tokenizer's alphabet
TokAlphabetTexts ==
    { <<"-">>, <<"a">>, <<" ">>, <<"\t">>, <<"\n">>, <<"=">>, <<EmDash>> }

TokTexts == TextsOf(TokAlphabetTexts, MaxLen, <<>>)

\* first words and what may follow them
SelectPieces ==
    { <<"t", "x", "t", "2", "i", "m", "g">>,
      <<"i", "m", "g">>,
      <<".", ".", "/", "s", "e", "c", "r", "e", "t">>,
      <<"n", "o", "s", "u", "c", "h">>,
      <<".", ".">>,
      <<"a", "/", "b">>,
      <<"h", "e", "l", "l", "o">>,
      <<"-", "-", "s", "t", "e", "p", "s", " ", "3", "0">> }

SelectTexts == TextsOf(SelectPieces, MaxPieces, <<" ">>)

\* img.json
ImgJson == <<"i", "m", "g", ".", "j", "s", "o", "n">>

\* what txt2img.json can be
FileStates ==
    { [kind |-> "object", doc |-> <<AnchorNode("6", <<"-", "-", "s", "t", "e", "p", "s", " ", "8">>)>>],
      [kind |-> "object", doc |-> <<ScalarNode("1"), OtherNode("3", "KSampler", <<"x">>)>>],
      [kind |-> "array"],
      [kind |-> "malformed"],
      [kind |-> "directory"] }

\* template directories: img.json is a template, txt2img.json varies or is
\* missing
SelectDirs ==
    { [f \in {Txt2imgJson, ImgJson} |->
          IF f = ImgJson
          THEN [kind |-> "object", doc |-> <<AnchorNode("2", <<>>)>>]
          ELSE st] : st \in FileStates }
    \cup { [f \in {ImgJson} |-> [kind |-> "object", doc |-> <<AnchorNode("2", <<>>)>>]] }

\* parts of a file value
FileParts ==
    { <<"h", "t", "t", "p", ":", "/", "/">>,
      <<"h", "t", "t", "p", "s", ":", "/", "/">>,
      <<"x">>,
      <<"/", "t", "m", "p">>,
      <<"/", "x">>,
      <<"a", "b", "c", "d">>,
      <<"Y", "Q">>,
      <<"=", "=">>,
      <<"a", " ", "b">> }

FileValues == TextsOf(FileParts, MaxParts, <<>>)

\* how a candidate path starts
PathPrefixes ==
    { <<>>,
      <<"/">>,
      <<"/", "b", "a", "s", "e", "d", "i", "r", "/", "o", "u", "t", "p", "u", "t", "/">>,
      <<"/", "b", "a", "s", "e", "d", "i", "r", "/", "o", "u", "t", "p", "u", "t", "_", "e", "v", "i", "l", "/">>,
      <<"/", "e", "t", "c", "/">> }

\* the segments that follow
PathSegments ==
    { <<".", ".">>,
      <<"a">>,
      <<"x">>,
      <<"b", "\\", ".", ".">> }

CandidatePaths ==
    {pre \o t : pre \in PathPrefixes, t \in TextsOf(PathSegments, MaxSegments, Slash)}

\* how many candidates of get_unique_path may be occupied beforehand
MaxTaken == 3

\* how many times get_unique_path is called on one path
MaxCalls == 2

\* how many texts, images or videos a save node is given
MaxItems == 2

\* the paths get_unique_path is called on
UniquePaths ==
    { <<"/", "b", "a", "s", "e", "d", "i", "r", "/", "o", "u", "t", "p", "u", "t", "/", "a", ".", "t", "x", "t">>,
      <<"/", "b", "a", "s", "e", "d", "i", "r", "/", "o", "u", "t", "p", "u", "t", "/", "a">>,
      <<"/", "b", "a", "s", "e", "d", "i", "r", "/", "o", "u", "t", "p", "u", "t", "/", ".", "h", "i", "d", "d", "e", "n">>,
      <<"/", "b", "a", "s", "e", "d", "i", "r", "/", "o", "u", "t", "p", "u", "t", "/", "a", ".", "t", "a", "r", ".", "g", "z">>,
      <<"/", "b", "a", "s", "e", "d", "i", "r", "/", "o", "u", "t", "p", "u", "t", "/", "d", ".", "v", "/", "a">> }

\* the path and its first candidates, any of which may exist
Taken(path) ==
    {path} \cup {UniqueCandidate(Splitext(path).root, n, Splitext(path).ext) :
                    n \in 1..MaxTaken}

\* the filename_prefix of a save node
SaveSegments == { <<".", ".">>, <<"a">>, <<"b", ".", "t", "x", "t">> }

SavePrefixes ==
    {pre \o t : pre \in PathPrefixes, t \in TextsOf(SaveSegments, MaxParts, Slash)}

\* files an earlier save of the prefix a at the same second left behind
EarlierSaves ==
    { OutputRoot \o <<"/", "a", "_">> \o Timestamp \o <<"_", "0">> \o DefaultExt(o) :
          o \in SaveOps }
    \cup { OutputRoot \o <<"/", "a", "_">> \o Timestamp \o DefaultExt("save_video") }

\* what random.randint can return: the two ends of its range
SeedDraws == {0, MaxSeed}

----------------------------------------------------------------------------
(* The state machine: one call of an entry point per run *)

Idle ==
    /\ pp = NoResult /\ pt = NoResult /\ lf = NoResult /\ san = NoResult
    /\ fs = {} /\ gu = NoCall /\ sv = NoSave /\ peer = NoPeer

InitWith(o, p, dir, text, fv, path) ==
    /\ op = o /\ prompt = p /\ templates = dir /\ command_text = text
    /\ file_value = fv /\ base_path = path
    /\ Idle

NoDir == [f \in {} |-> Missing]

InitPrompt(texts, dirs) ==
    \E p \in texts, dir \in dirs : InitWith("parse_prompt", p, dir, <<>>, <<>>, <<>>)

InitNode(texts) ==
    \E t \in texts : InitWith("parse_text", <<>>, NoDir, t, <<>>, <<>>)

\* parse_prompt(prompt)
ParsePrompt ==
    /\ op = "parse_prompt" /\ ~pp.done
    /\ \E m \in {MergePrompt(prompt, templates)} :
          \E rnd \in SeedDraws : pp' = FinishPrompt(m, rnd)
    /\ UNCHANGED <<op, prompt, templates, command_text, pt, file_value, lf,
                   base_path, san>>
    /\ UNCHANGED <<fs, gu, sv>>
    /\ UNCHANGED peer

HasAnchor(doc) == \E i \in DOMAIN doc : IsAnchor(doc[i])

\* the workflow parse_prompt returned is run: its TextCommandParser node is
\* given the command_text input of the workflow
RunNode ==
    /\ op = "parse_prompt" /\ pp.done /\ pp.raised = "" /\ ~pt.done
    /\ HasAnchor(pp.template)
    /\ command_text' = DefaultPrompt(pp.template)
    /\ \E m \in {MergeText(command_text')} :
          \E net \in NetOutcomes : pt' = ResolveFile(m, net)
    /\ UNCHANGED <<op, prompt, templates, pp, file_value, lf, base_path, san>>
    /\ UNCHANGED <<fs, gu, sv>>
    /\ UNCHANGED peer

\* parse_text(command_text) on a text of the user
ParseText ==
    /\ op = "parse_text" /\ ~pt.done
    /\ \E m \in {MergeText(command_text)} :
          \E net \in NetOutcomes : pt' = ResolveFile(m, net)
    /\ UNCHANGED <<op, prompt, templates, pp, command_text, file_value, lf,
                   base_path, san>>
    /\ UNCHANGED <<fs, gu, sv>>
    /\ UNCHANGED peer

\* _load_file_as_base64(file_value)
LoadFile ==
    /\ op = "load_file" /\ ~lf.done
    /\ \E net \in NetOutcomes :
          lf' = [done |-> TRUE] @@ LoadFileAsBase64(file_value, net)
    /\ UNCHANGED <<op, prompt, templates, pp, command_text, pt, file_value,
                   base_path, san>>
    /\ UNCHANGED <<fs, gu, sv>>
    /\ UNCHANGED peer

\* sanitize_base_path(base_path)
SanitizeBasePath ==
    /\ op = "sanitize_base_path" /\ ~san.done
    /\ san' = SanitizeRun(base_path)
    /\ UNCHANGED <<op, prompt, templates, pp, command_text, pt, file_value, lf,
                   base_path>>
    /\ UNCHANGED <<fs, gu, sv>>
    /\ UNCHANGED peer

\* get_unique_path(base_path), called by itself
GetUniquePath ==
    /\ op = "get_unique_path" /\ gu.pc \in {"idle", "returned"}
    /\ Len(gu.rets) < MaxCalls
    /\ UniqueCall(base_path)
    /\ UNCHANGED <<op, prompt, templates, pp, command_text, pt, file_value, lf,
                   base_path, san, fs, sv>>
    /\ UNCHANGED peer

\* one turn of "while os.path.exists(unique_path)"
UniqueLoop ==
    /\ gu.pc = "loop" /\ gu.unique_path \in fs
    /\ gu' = [gu EXCEPT !.unique_path = UniqueCandidate(gu.base, gu.counter, gu.ext),
                        !.counter = gu.counter + 1]
    /\ UNCHANGED <<op, prompt, templates, pp, command_text, pt, file_value, lf,
                   base_path, san, fs, sv>>
    /\ UNCHANGED peer

\* the while condition is false: return unique_path
UniqueReturn ==
    /\ gu.pc = "loop" /\ gu.unique_path \notin fs
    /\ gu' = [gu EXCEPT !.pc = "returned", !.rets = Append(gu.rets, gu.unique_path)]
    /\ UNCHANGED <<op, prompt, templates, pp, command_text, pt, file_value, lf,
                   base_path, san, fs, sv>>
    /\ UNCHANGED peer

\* the caller creates the file it was given a path for
WriteReturned ==
    /\ op = "get_unique_path" /\ gu.pc = "returned"
    /\ fs' = fs \cup {gu.rets[Len(gu.rets)]}
    /\ gu' = [gu EXCEPT !.pc = "idle"]
    /\ UNCHANGED <<op, prompt, templates, pp, command_text, pt, file_value, lf,
                   base_path, san, sv>>
    /\ UNCHANGED peer

\* save_text, save_image, save_video down to the loop over the items
SaveSanitize ==
    /\ op \in SaveOps /\ sv.pc = "start"
    /\ san' = SanitizeRun(base_path)
    /\ sv' = IF san'.raised # ""
             THEN [sv EXCEPT !.pc = "raised", !.raised = san'.raised]
             ELSE IF op = "save_image" /\ sv.ndim \notin {3, 4}
             THEN [sv EXCEPT !.pc = "raised", !.raised = "ValueError"]
             ELSE [sv EXCEPT !.pc = "next",
                             !.n = IF op = "save_image" /\ sv.ndim = 3 THEN 1 ELSE sv.n,
                             !.root = Splitext(san'.ret).root,
                             !.ext = IF Splitext(san'.ret).ext = <<>>
                                     THEN DefaultExt(op) ELSE Splitext(san'.ret).ext]
    /\ UNCHANGED <<op, prompt, templates, pp, command_text, pt, file_value, lf,
                   base_path, fs, gu>>
    /\ UNCHANGED peer

\* full_path = get_unique_path(...): the call
SaveAllocate ==
    /\ op \in SaveOps /\ sv.pc = "next" /\ sv.idx < sv.n
    /\ UniqueCall(SaveName(op, sv.root, sv.idx, sv.n, sv.ext))
    /\ sv' = [sv EXCEPT !.pc = "allocating"]
    /\ UNCHANGED <<op, prompt, templates, pp, command_text, pt, file_value, lf,
                   base_path, san, fs>>
    /\ UNCHANGED peer

\* os.makedirs, the write of the item, results.append; a VIDEO object
\* without save_to makes save_video raise after the directories are made
SaveWrite ==
    /\ op \in SaveOps /\ sv.pc = "allocating" /\ gu.pc = "returned"
    /\ \E full_path \in {gu.rets[Len(gu.rets)]} :
       \E saves \in (IF op = "save_video" THEN BOOLEAN ELSE {TRUE}) :
          IF saves
          THEN /\ fs' = fs \cup Ancestors(full_path) \cup {full_path}
               /\ sv' = [sv EXCEPT !.pc = "next", !.idx = sv.idx + 1,
                                   !.written = Append(sv.written, full_path)]
          ELSE /\ fs' = fs \cup Ancestors(full_path)
               /\ sv' = [sv EXCEPT !.pc = "raised", !.raised = "ValueError"]
    /\ gu' = [gu EXCEPT !.pc = "idle"]
    /\ UNCHANGED <<op, prompt, templates, pp, command_text, pt, file_value, lf,
                   base_path, san>>
    /\ UNCHANGED peer

\* return {"ui": {"images": results}}
SaveReturn ==
    /\ op \in SaveOps /\ sv.pc = "next" /\ sv.idx = sv.n
    /\ sv' = [sv EXCEPT !.pc = "done"]
    /\ UNCHANGED <<op, prompt, templates, pp, command_text, pt, file_value, lf,
                   base_path, san, fs, gu>>
    /\ UNCHANGED peer

\* a second save node called with the same filename_prefix at the same
\* second, each of its steps taken between steps of the first

PeerFrame ==
    UNCHANGED <<op, prompt, templates, pp, command_text, pt, file_value, lf,
                base_path, san, gu, sv>>

\* save_text, save_image, save_video down to the loop over the items
PeerSanitize ==
    /\ peer.op \in SaveOps /\ peer.sv.pc = "start"
    /\ \E s \in {SanitizeRun(base_path)} :
          peer' = [peer EXCEPT !.sv =
             IF s.raised # ""
             THEN [peer.sv EXCEPT !.pc = "raised", !.raised = s.raised]
             ELSE IF peer.op = "save_image" /\ peer.sv.ndim \notin {3, 4}
             THEN [peer.sv EXCEPT !.pc = "raised", !.raised = "ValueError"]
             ELSE [peer.sv EXCEPT
                      !.pc = "next",
                      !.n = IF peer.op = "save_image" /\ peer.sv.ndim = 3
                            THEN 1 ELSE peer.sv.n,
                      !.root = Splitext(s.ret).root,
                      !.ext = IF Splitext(s.ret).ext = <<>>
                              THEN DefaultExt(peer.op) ELSE Splitext(s.ret).ext]]
    /\ UNCHANGED fs /\ PeerFrame

\* full_path = get_unique_path(...): the call, up to the while statement
PeerAllocate ==
    /\ peer.op \in SaveOps /\ peer.sv.pc = "next" /\ peer.sv.idx < peer.sv.n
    /\ \E path \in {SaveName(peer.op, peer.sv.root, peer.sv.idx, peer.sv.n, peer.sv.ext)} :
          peer' = [peer EXCEPT
                      !.sv.pc = "allocating",
                      !.gu = [peer.gu EXCEPT
                                 !.pc = "loop", !.path = path,
                                 !.base = Splitext(path).root,
                                 !.ext = Splitext(path).ext,
                                 !.unique_path = path, !.counter = 1]]
    /\ UNCHANGED fs /\ PeerFrame

\* one turn of "while os.path.exists(unique_path)"
PeerUniqueLoop ==
    /\ peer.gu.pc = "loop" /\ peer.gu.unique_path \in fs
    /\ peer' = [peer EXCEPT
                   !.gu.unique_path =
                       UniqueCandidate(peer.gu.base, peer.gu.counter, peer.gu.ext),
                   !.gu.counter = peer.gu.counter + 1]
    /\ UNCHANGED fs /\ PeerFrame

\* the while condition is false: return unique_path
PeerUniqueReturn ==
    /\ peer.gu.pc = "loop" /\ peer.gu.unique_path \notin fs
    /\ peer' = [peer EXCEPT
                   !.gu.pc = "returned",
                   !.gu.rets = Append(peer.gu.rets, peer.gu.unique_path)]
    /\ UNCHANGED fs /\ PeerFrame

\* os.makedirs, the write of the item, results.append
PeerWrite ==
    /\ peer.op \in SaveOps /\ peer.sv.pc = "allocating" /\ peer.gu.pc = "returned"
    /\ \E full_path \in {peer.gu.rets[Len(peer.gu.rets)]} :
       \E saves \in (IF peer.op = "save_video" THEN BOOLEAN ELSE {TRUE}) :
          IF saves
          THEN /\ fs' = fs \cup Ancestors(full_path) \cup {full_path}
               /\ peer' = [peer EXCEPT
                              !.gu.pc = "idle",
                              !.sv.pc = "next", !.sv.idx = peer.sv.idx + 1,
                              !.sv.written = Append(peer.sv.written, full_path)]
          ELSE /\ fs' = fs \cup Ancestors(full_path)
               /\ peer' = [peer EXCEPT
                              !.gu.pc = "idle",
                              !.sv.pc = "raised", !.sv.raised = "ValueError"]
    /\ PeerFrame

\* return {"ui": {"images": results}}
PeerReturn ==
    /\ peer.op \in SaveOps /\ peer.sv.pc = "next" /\ peer.sv.idx = peer.sv.n
    /\ peer' = [peer EXCEPT !.sv.pc = "done"]
    /\ UNCHANGED fs /\ PeerFrame

\* directives merged by both call sites, and by the node after parse_prompt
Init == InitPrompt(MergeTexts, MergeDirs) \/ InitNode(MergeTexts)

Next == ParsePrompt \/ RunNode \/ ParseText

Spec == Init /\ [][Next]_vars

\* the tokenizer on every short text over its alphabet
InitTok == InitPrompt(TokTexts, MergeDirs) \/ InitNode(TokTexts)

NextTok == ParsePrompt \/ ParseText

SpecTok == InitTok /\ [][NextTok]_vars

\* template selection and loading
InitSelect == InitPrompt(SelectTexts, SelectDirs)

NextSelect == ParsePrompt \/ RunNode

SpecSelect == InitSelect /\ [][NextSelect]_vars

\* the file resolver
InitFile ==
    \E fv \in FileValues : InitWith("load_file", <<>>, NoDir, <<>>, fv, <<>>)

NextFile == LoadFile

SpecFile == InitFile /\ [][NextFile]_vars

\* the file entry at the two call sites: prompts and command texts with
\* file directives of every form, over a template with and without one
FilePieces ==
    { <<"a", " ", "c", "a", "t">>,
      <<"-", "-", "f", "i", "l", "e", " ", "/", "t", "m", "p", "/", "x">>,
      <<"-", "-", "f", "i", "l", "e", " ", "/", "t", "m", "p">>,
      <<"-", "-", "f", "i", "l", "e", " ", "a", "G", "k", "=">>,
      <<"-", "-", "f", "i", "l", "e", " ", "h", "t", "t", "p", ":", "/", "/", "h", "/", "i">>,
      <<"-", "-", "f", "i", "l", "e", " ", "n", "o", " ", "t">>,
      <<"-", "-", "f", "i", "l", "e">>,
      <<"-", "-", "s", "t", "e", "p", "s", " ", "9">> }

FileTexts == TextsOf(FilePieces, MaxPieces, <<" ">>)

\* --neg tmpl --file aGk=
AnchorWithFile ==
    <<"-", "-", "n", "e", "g", " ", "t", "m", "p", "l", " ", "-", "-", "f", "i", "l", "e", " ", "a", "G", "k", "=">>

FileDirs == MergeDirs \cup {DirWithAnchor(AnchorWithFile)}

InitFileEntry == InitPrompt(FileTexts, FileDirs) \/ InitNode(FileTexts)

SpecFileEntry == InitFileEntry /\ [][Next]_vars

\* the output path guard
InitPath ==
    \E path \in CandidatePaths :
        InitWith("sanitize_base_path", <<>>, NoDir, <<>>, <<>>, path)

NextPath == SanitizeBasePath

SpecPath == InitPath /\ [][NextPath]_vars

\* get_unique_path, called up to MaxCalls times on one path
InitUnique ==
    \E path \in UniquePaths : \E taken \in SUBSET Taken(path) :
        /\ op = "get_unique_path" /\ prompt = <<>> /\ templates = NoDir
        /\ command_text = <<>> /\ file_value = <<>> /\ base_path = path
        /\ pp = NoResult /\ pt = NoResult /\ lf = NoResult /\ san = NoResult
        /\ fs = taken /\ gu = NoCall /\ sv = NoSave /\ peer = NoPeer

NextUnique == GetUniquePath \/ UniqueLoop \/ UniqueReturn \/ WriteReturned

SpecUnique == InitUnique /\ [][NextUnique]_vars

\* a call that has begun goes on: the loop and the return are not suspended
SpecUniqueFair ==
    SpecUnique /\ WF_vars(UniqueLoop) /\ WF_vars(UniqueReturn)

\* the save nodes
InitSave ==
    \E o \in SaveOps, prefix \in SavePrefixes, n \in 0..MaxItems,
       existing \in {{}, EarlierSaves} :
    \E ndim \in (IF o = "save_image" THEN {2, 3, 4} ELSE {4}) :
        /\ op = o /\ prompt = <<>> /\ templates = NoDir
        /\ command_text = <<>> /\ file_value = <<>> /\ base_path = prefix
        /\ pp = NoResult /\ pt = NoResult /\ lf = NoResult /\ san = NoResult
        /\ fs = existing /\ gu = NoCall
        /\ sv = [NoSave EXCEPT !.pc = "start", !.n = n, !.ndim = ndim]
        /\ peer = NoPeer

NextSave ==
    \/ SaveSanitize \/ SaveAllocate \/ UniqueLoop \/ UniqueReturn
    \/ SaveWrite \/ SaveReturn

SpecSave == InitSave /\ [][NextSave]_vars

\* two saves of one filename_prefix at the same second
TwoSavePrefixes == { <<"a">>, <<"b", ".", "t", "x", "t">> }

InitTwoSaves ==
    \E o1 \in SaveOps, o2 \in SaveOps, prefix \in TwoSavePrefixes,
       n1 \in 1..MaxItems, n2 \in 1..MaxItems, existing \in {{}, EarlierSaves} :
        /\ op = o1 /\ prompt = <<>> /\ templates = NoDir
        /\ command_text = <<>> /\ file_value = <<>> /\ base_path = prefix
        /\ pp = NoResult /\ pt = NoResult /\ lf = NoResult /\ san = NoResult
        /\ fs = existing /\ gu = NoCall
        /\ sv = [NoSave EXCEPT !.pc = "start", !.n = n1, !.ndim = 4]
        /\ peer = [op |-> o2, gu |-> NoCall,
                   sv |-> [NoSave EXCEPT !.pc = "start", !.n = n2, !.ndim = 4]]

NextTwoSaves ==
    \/ SaveSanitize \/ SaveAllocate \/ UniqueLoop \/ UniqueReturn
    \/ SaveWrite \/ SaveReturn
    \/ PeerSanitize \/ PeerAllocate \/ PeerUniqueLoop \/ PeerUniqueReturn
    \/ PeerWrite \/ PeerReturn

SpecTwoSaves == InitTwoSaves /\ [][NextTwoSaves]_vars

----------------------------------------------------------------------------
(* Properties *)

NoDirective(t) == ~Search(t)

NoWhitespaceRun(t) ==
    \A i \in 1..(Len(t) - 1) : ~(t[i] \in Whitespace /\ t[i + 1] \in Whitespace)

\* C1: the positive text both parsers compute holds no directive and no
\* run of two or more whitespace characters, whatever the input text
C1_ResidualHoldsNoDirective ==
    /\ pp.done /\ pp.raised = ""
          => NoDirective(pp.prompt) /\ NoWhitespaceRun(pp.prompt)
    /\ pt.done
          => NoDirective(pt.start[K_pos].v) /\ NoWhitespaceRun(pt.start[K_pos].v)

Coercible(type, raw) ==
    \/ type = "str"
    \/ type = "int" /\ IntParse(raw).ok
    \/ type = "float" /\ FloatParse(raw).ok

ValueOf(type, raw) ==
    CASE type = "str"   -> StrV(raw)
      [] type = "int"   -> IntV(IntParse(raw).v)
      [] type = "float" -> [t |-> "float", v |-> FloatParse(raw).v]

\* one merge pass: a key with a value of its type takes it, every other key
\* keeps its entry
PassKeeps(before, overrides, after) ==
    /\ DOMAIN after = DOMAIN before
    /\ \A k \in DOMAIN before :
          IF k \in DOMAIN overrides /\ Coercible(before[k].t, overrides[k])
          THEN after[k] = ValueOf(before[k].t, overrides[k])
          ELSE after[k] = before[k]

TypesKept(dict, defaults) ==
    /\ DOMAIN dict = DOMAIN defaults
    /\ \A k \in DOMAIN defaults : dict[k].t = defaults[k].t

\* C2: in each merge pass (template defaults, user prompt, the node) a
\* registry key whose value cannot be coerced keeps the entry it had, no
\* exception leaves the pass, the other directives of the pass are merged,
\* and every entry keeps the type of its default through all the passes
C2_FailedCoercionKeepsEntry ==
    /\ pp.done =>
          /\ pp.raised = ""
          /\ PassKeeps(PromptDefaults, pp.first, pp.base)
          /\ PassKeeps(pp.base, pp.overrides, pp.merged)
          /\ TypesKept(pp.base, PromptDefaults)
          /\ TypesKept(pp.merged, PromptDefaults)
          /\ TypesKept(pp.sized, PromptDefaults)
          /\ TypesKept(pp.final_dict, PromptDefaults)
    /\ pt.done =>
          /\ pt.raised = ""
          /\ PassKeeps(pt.start, pt.overrides, pt.merged)
          /\ TypesKept(pt.merged, NodeDefaults)
          /\ TypesKept(pt.final_dict, NodeDefaults)

\* a user pass in which --steps has no integer value and --cfg is merged:
\* steps stays at the 8 of the template
C2_Witness ==
    /\ pp.done /\ pp.raised = ""
    /\ K_steps \in DOMAIN pp.overrides /\ ~IntParse(pp.overrides[K_steps]).ok
    /\ pp.merged[K_steps] = IntV(8)
    /\ K_cfg \in DOMAIN pp.overrides /\ pp.merged[K_cfg] # pp.base[K_cfg]

SizeParts(raw) == SplitOn(Lower(raw), "x")

WellFormedSize(raw) ==
    /\ Len(SizeParts(raw)) = 2
    /\ IntParse(SizeParts(raw)[1]).ok
    /\ IntParse(SizeParts(raw)[2]).ok

\* C3: a size directive that parses as <int>x<int> sets width and height;
\* one that does not leaves both as they were before the size step
C3_SizeAllOrNothing ==
    pp.done /\ pp.raised = "" /\ K_size \in DOMAIN pp.overrides =>
        IF WellFormedSize(pp.overrides[K_size])
        THEN /\ pp.sized[K_width] = IntV(IntParse(SizeParts(pp.overrides[K_size])[1]).v)
             /\ pp.sized[K_height] = IntV(IntParse(SizeParts(pp.overrides[K_size])[2]).v)
        ELSE /\ pp.sized[K_width] = pp.merged[K_width]
             /\ pp.sized[K_height] = pp.merged[K_height]

SeedResolved(before, after) ==
    IF before[K_seed].v = 0 - 1
    THEN after[K_seed].t = "int" /\ after[K_seed].v \in 0..MaxSeed
    ELSE after[K_seed] = before[K_seed]

\* C4: at both call sites a merged seed of -1 is returned as an integer of
\* 0..2^31-1, and any other merged seed is returned unchanged
C4_SeedResolvedAtBothSites ==
    /\ pp.done /\ pp.raised = "" => SeedResolved(pp.sized, pp.final_dict)
    /\ pt.done => SeedResolved(pt.merged, pt.final_dict)

Appended(before, after, into, from) ==
    before[from].v # <<>> =>
        after[into].v = Strip(before[into].v \o <<",", " ">> \o before[from].v,
                              {",", " "})

\* C5: at both call sites a non-empty pos_ is appended to pos, and a
\* non-empty neg_ to neg, joined by ", " and trimmed of commas and spaces
C5_AppendAtBothSites ==
    /\ pt.done => /\ Appended(pt.merged, pt.final_dict, K_pos, K_pos_)
                  /\ Appended(pt.merged, pt.final_dict, K_neg, K_neg_)
    /\ pp.done /\ pp.raised = ""
          => Appended(pp.merged, pp.final_dict, K_neg, K_neg_)

FirstWord(text) == SplitWords(text)[1]

HasSeparator(word) == "/" \in Range(word)

\* C6: parse_prompt opens a file of the template directory only; a first
\* word with a path separator is neither selected nor consumed, and a first
\* word is selected and consumed only when it has no separator and
\* <word>.json is in the template directory
C6_SelectionStaysInDirectory ==
    pp.done =>
        /\ Dirname(pp.opened) = Normpath(JSON_DIR)
        /\ pp.taken =>
              /\ SplitWords(prompt) # <<>>
              /\ ~HasSeparator(FirstWord(prompt))
              /\ FirstWord(prompt) \o DotJson \in DOMAIN templates
              /\ pp.json_filename = FirstWord(prompt) \o DotJson
              /\ pp.stripped = Join(Tail(SplitWords(prompt)), <<" ">>)
        /\ ~pp.taken => pp.json_filename = Txt2imgJson /\ pp.stripped = prompt
        /\ SplitWords(prompt) # <<>> /\ HasSeparator(FirstWord(prompt)) => ~pp.taken

\* the first word names, through "..", a file that exists outside the
\* template directory, and parse_prompt has returned
C6_Witness ==
    /\ pp.done
    /\ SplitWords(prompt) # <<>>
    /\ HasSeparator(FirstWord(prompt))
    /\ Normpath(PathJoin(JSON_DIR, FirstWord(prompt) \o DotJson)) \in OutsideFiles

SelectedFile == FileAt(PathJoin(JSON_DIR, pp.json_filename), templates)

\* C7: whatever the selected template file is (missing, not JSON, JSON that
\* is no mapping of nodes), parse_prompt raises nothing, and without a
\* mapping it returns the serialization of an empty document
C7_TemplateNeverFails ==
    pp.done =>
        /\ pp.raised = ""
        /\ SelectedFile.kind # "object" => pp.json_result = <<"{", "}">>

ThroughNode == op = "parse_prompt" /\ pp.done /\ pt.done

IsUrl(v) == StartsWith(v, HttpPrefix) \/ StartsWith(v, HttpsPrefix)

ResolutionFails ==
    \/ file_value = <<>>
    \/ IsUrl(file_value) /\ lf.net # "image"
    \/ ~IsUrl(file_value) /\ LocalKind(file_value) = "directory"
    \/ ~IsUrl(file_value) /\ LocalKind(file_value) = "missing"
                          /\ ~IsBase64(file_value)

\* C9: _load_file_as_base64 raises nothing, and every failure (transport
\* error, timeout, error status, no image, unreadable entry, invalid
\* base64, empty input) returns the empty string
C9_ResolverNeverRaises ==
    lf.done => /\ lf.raised = ""
               /\ ResolutionFails => lf.ret = <<>>

\* a GET that timed out
C9_Witness == lf.done /\ lf.net = "Timeout" /\ lf.tried = <<"get">>

Within(path, root) == path = root \/ StartsWith(path, root \o Slash)

\* the candidate has a ".." segment and, taken from the root when it is
\* relative, names a place outside the root
Escapes(path) ==
    /\ <<".", ".">> \in Range(SplitOn(path, "/"))
    /\ ~Within(Normpath(PathJoin(OutputRoot, path)), OutputRoot)

\* C10: sanitize_base_path raises for every candidate that leaves the
\* root through ".." segments, relative or absolute
C10_EscapeAlwaysRejected ==
    san.done /\ Escapes(base_path) => san.raised = "ValueError"

\* C11: what sanitize_base_path returns is the allowed root or a path
\* below it, and every file a save node writes is below the allowed root
C11_SavesStayUnderRoot ==
    /\ san.done /\ san.raised = "" => Within(san.ret, OutputRoot)
    /\ \A i \in DOMAIN sv.written :
          StartsWith(sv.written[i], OutputRoot \o Slash)

LastReturned == gu.rets[Len(gu.rets)]

\* C12: two calls of get_unique_path on one path return two different
\* paths, each unoccupied when it is returned
C12_TwoCallsDistinct ==
    /\ gu.pc = "returned" => LastReturned \notin fs
    /\ Len(gu.rets) >= 2 => gu.rets[1] # gu.rets[2]

Numbered(path, n) ==
    Splitext(path).root \o <<"(">> \o IntFormat(n) \o <<")">> \o Splitext(path).ext

\* the path itself when it is free, else the numbered path of the smallest
\* n >= 1 that is free
SmallestFree ==
    gu.pc = "returned" =>
        IF gu.path \notin fs THEN LastReturned = gu.path
        ELSE \E n \in 1..(Cardinality(fs) + 1) :
                /\ LastReturned = Numbered(gu.path, n)
                /\ Numbered(gu.path, n) \notin fs
                /\ \A m \in 1..(n - 1) : Numbered(gu.path, m) \in fs

\* C13: with the existing entries unchanged during the call, every call of
\* get_unique_path returns, and it returns the path itself when that is
\* unoccupied, else <base>(n)<ext> for the smallest n >= 1 that is
\* unoccupied, the suffix before the extension
C13_UniqueTerminatesAtSmallest ==
    /\ []SmallestFree
    /\ (gu.pc = "loop") ~> (gu.pc = "returned")

\* a path with an extension, occupied along with its first candidate, for
\* which the loop ran twice and the call returned
C13_Witness ==
    /\ gu.pc = "returned"
    /\ gu.ext # <<>>
    /\ gu.path \in fs /\ Numbered(gu.path, 1) \in fs
    /\ LastReturned = Numbered(gu.path, 2)


\* the keys of the directives PATTERN finds in a text
KeysIn(t) ==
    LET found == FindAll(t)
    IN  {found[i][1] : i \in DOMAIN found}

\* a pass over overrides: no key is added or lost, no directive of a key
\* the table lacks is left in the residual, and an entry no directive
\* names is as it was
IgnoresUnknown(before, overrides, after, residual) ==
    /\ DOMAIN after = DOMAIN before
    /\ (DOMAIN overrides \ DOMAIN before) \cap KeysIn(residual) = {}
    /\ \A k \in DOMAIN before \ DOMAIN overrides : after[k] = before[k]

\* C14: a directive whose key the table lacks is taken out of the text,
\* adds no entry, changes no entry and raises nothing; every table a parse
\* goes through has the keys it began with
C14_UnknownKeyIgnored ==
    /\ pp.done =>
          /\ pp.raised = ""
          /\ IgnoresUnknown(PromptDefaults, pp.first, pp.base,
                            Residual(pp.default))
          /\ IgnoresUnknown(pp.base, pp.overrides, pp.merged, pp.prompt)
          /\ K_size \notin DOMAIN pp.overrides => pp.sized = pp.merged
          /\ DOMAIN pp.sized = DOMAIN PromptDefaults
          /\ DOMAIN pp.final_dict = DOMAIN PromptDefaults
    /\ pt.done =>
          /\ pt.raised = ""
          /\ IgnoresUnknown(pt.start, pt.overrides, pt.merged, pt.start[K_pos].v)
          /\ DOMAIN pt.start = DOMAIN NodeDefaults
          /\ DOMAIN pt.final_dict = DOMAIN NodeDefaults

\* --bogus 5 next to a directive that is merged
C14_Witness ==
    /\ pp.done /\ pp.raised = ""
    /\ <<"b", "o", "g", "u", "s">> \in DOMAIN pp.overrides
    /\ pp.overrides[<<"b", "o", "g", "u", "s">>] = <<"5">>
    /\ pp.merged[K_steps] # pp.base[K_steps]


\* the catalog of recognized keys
CatalogKeys ==
    {K_pos, K_pos_, K_neg, K_neg_, K_model, K_seed, K_steps, K_width, K_height,
     K_count, K_length, K_cfg, K_file, K_tokens}

\* the documented defaults the two call sites share
SharedDefaults(dict) ==
    /\ dict[K_width] = IntV(512) /\ dict[K_height] = IntV(512)
    /\ dict[K_count] = IntV(1) /\ dict[K_length] = IntV(80)
    /\ dict[K_cfg] = FloatV(10, 1) /\ dict[K_tokens] = IntV(512)
    /\ \A k \in {K_pos_, K_neg, K_neg_, K_model} : dict[k] = StrV(<<>>)

\* a directive of a catalog key is stored under that key
Stored(overrides, dict) ==
    \A k \in CatalogKeys \cap DOMAIN overrides :
        dict[k].t = "str" => dict[k].v = overrides[k]

\* C15: at both call sites the table has exactly the 14 catalog keys, a
\* directive for any of them (--pos X too) is stored, and a text with no
\* directive leaves the documented defaults
C15_CatalogAtBothSites ==
    /\ pt.done =>
          /\ DOMAIN pt.start = CatalogKeys
          /\ Stored(pt.overrides, pt.merged)
          /\ DOMAIN pt.overrides = {} =>
                /\ SharedDefaults(pt.merged)
                /\ pt.merged[K_seed] = IntV(0) /\ pt.merged[K_steps] = IntV(20)
    /\ SharedDefaults(PromptDefaults)
    /\ PromptDefaults[K_seed] = IntV(0 - 1) /\ PromptDefaults[K_steps] = IntV(4)
    /\ pp.done /\ pp.raised = "" =>
          /\ DOMAIN pp.merged = CatalogKeys
          /\ Stored(pp.overrides, pp.merged)


\* the value the two passes leave under key k: the user's when coercible,
\* else the template's when coercible, else the default
Precedence(k, user, anchor) ==
    IF k \in DOMAIN user /\ Coercible(PromptDefaults[k].t, user[k])
    THEN ValueOf(PromptDefaults[k].t, user[k])
    ELSE IF k \in DOMAIN anchor /\ Coercible(PromptDefaults[k].t, anchor[k])
    THEN ValueOf(PromptDefaults[k].t, anchor[k])
    ELSE PromptDefaults[k]

\* C16: after the two passes of parse_prompt every key holds the value of
\* the user prompt when that is coercible, else the value of the template
\* anchor when that is coercible, else the default; the size and seed
\* steps leave every key but width, height and seed at that value
C16_UserThenTemplateThenDefault ==
    pp.done /\ pp.raised = "" =>
        /\ \A k \in DOMAIN PromptDefaults :
              pp.merged[k] = Precedence(k, pp.overrides, pp.first)
        /\ \A k \in DOMAIN PromptDefaults \ {K_width, K_height, K_seed} :
              pp.final_dict[k] = pp.merged[k]

\* the user gives steps no integer and the template gave 8: 8 stays; the
\* user gives a cfg and the template gave none that is a float: the user's
\* is taken; neg is the template's
C16_Witness ==
    /\ pp.done /\ pp.raised = ""
    /\ K_steps \in DOMAIN pp.overrides /\ ~IntParse(pp.overrides[K_steps]).ok
    /\ pp.final_dict[K_steps] = IntV(8)
    /\ K_cfg \in DOMAIN pp.overrides /\ pp.final_dict[K_cfg] = FloatV(25, 1)
    /\ pp.final_dict[K_neg] = StrV(<<"t", "m", "p", "l">>)


\* the keys of parse_prompt's table in the order they are written
RegistryOrder ==
    <<K_pos_, K_neg, K_neg_, K_model, K_seed, K_steps, K_width, K_height,
      K_count, K_length, K_cfg, K_file, K_tokens>>

RECURSIVE DirectiveText(_, _)
DirectiveText(keys, dict) ==
    IF keys = <<>> THEN <<>>
    ELSE <<" ", "-", "-">> \o Head(keys) \o <<" ">> \o Format(dict[Head(keys)])
         \o DirectiveText(Tail(keys), dict)

\* C17: after parse_prompt the command_text of the anchor is the residual
\* of the user prompt, then for every entry of the final table, in
\* registry order, a space and --key value; every other node of the
\* document, and every other input, is as it was loaded
C17_AnchorHoldsEveryEntry ==
    pp.done /\ pp.raised = "" =>
        /\ Len(pp.template) = Len(pp.loaded)
        /\ \A i \in DOMAIN pp.loaded :
              IF IsAnchor(pp.loaded[i])
              THEN pp.template[i] =
                      [pp.loaded[i] EXCEPT !.inputs.command_text =
                          pp.prompt \o DirectiveText(RegistryOrder, pp.final_dict)]
              ELSE pp.template[i] = pp.loaded[i]

\* a template with an anchor and another node, a prompt with a residual,
\* steps set by the user and count still at its default
C17_Witness ==
    /\ pp.done /\ pp.raised = ""
    /\ \E i, j \in DOMAIN pp.loaded : IsAnchor(pp.loaded[i]) /\ ~IsAnchor(pp.loaded[j])
    /\ pp.prompt # <<>>
    /\ pp.final_dict[K_steps] = IntV(30)
    /\ pp.final_dict[K_count] = PromptDefaults[K_count]


\* C18: the three forms of a file value are tried in one order and one
\* form only is tried: a URL is fetched once and nothing else, failed or
\* not; else an existing entry is read and nothing else, failed or not;
\* else the value is validated as base64 and returned as it is when valid
C18_OneFormOnly ==
    lf.done /\ file_value # <<>> =>
        IF IsUrl(file_value)
        THEN /\ lf.tried = <<"get">>
             /\ lf.ret = IF lf.net = "image" THEN B64Encode(LocalBytes) ELSE <<>>
        ELSE IF LocalKind(file_value) # "missing"
        THEN /\ lf.tried = <<"exists", "open">>
             /\ lf.ret = IF LocalKind(file_value) = "file"
                         THEN B64Encode(LocalBytes) ELSE <<>>
        ELSE /\ lf.tried = <<"exists", "b64decode">>
             /\ lf.ret = IF IsBase64(file_value) THEN file_value ELSE <<>>

\* /tmp is a directory and is valid base64 as well: the read fails and the
\* text is not returned as base64
C18_Witness ==
    /\ lf.done
    /\ LocalKind(file_value) = "directory" /\ IsBase64(file_value)
    /\ lf.ret = <<>>


\* where the matches of one scan from i begin and end
RECURSIVE Spans(_, _)
Spans(s, i) ==
    IF i > Len(s) THEN <<>>
    ELSE LET m == MatchAt(s, i)
         IN  IF m.ok
             THEN <<[from |-> i, to |-> m.end]>> \o Spans(s, m.end)
             ELSE Spans(s, i + 1)

\* the matches lie one after the other without overlap, and each of them,
\* parsed by itself, is the one directive it was in the text
ScannedOnce(s, found, spans) ==
    /\ Len(found) = Len(spans)
    /\ \A i \in 1..(Len(spans) - 1) : spans[i].to <= spans[i + 1].from
    /\ \A i \in DOMAIN spans :
          FindAll(SubSeq(s, spans[i].from, spans[i].to - 1)) = <<found[i]>>

\* each key has the value of its last occurrence
LastWins(found, overrides) ==
    /\ DOMAIN overrides = {found[i][1] : i \in DOMAIN found}
    /\ \A i \in DOMAIN found :
          (\A j \in (i + 1)..Len(found) : found[j][1] # found[i][1])
              => overrides[found[i][1]] = Strip(found[i][2], Whitespace)

Tokenized(s, overrides) ==
    /\ \E found \in {FindAll(s)} :
          /\ ScannedOnce(s, found, Spans(s, 1))
          /\ LastWins(found, overrides)
    /\ s = <<"-", "-", "n", "e", "g", " ", "-", "-", "s", "t", "e", "p", "s", " ", "3", "0">>
          => overrides = [k \in {K_neg, K_steps} |->
                             IF k = K_neg THEN <<>> ELSE <<"3", "0">>]

\* C19: the directives of a text are found in one scan from left to
\* right, without overlap and each by itself (--neg --steps 30 gives neg
\* the empty value and steps 30), and a key that occurs several times has
\* the value of its last occurrence
C19_OneScanLastWins ==
    /\ pp.done /\ pp.raised = "" => Tokenized(pp.stripped, pp.overrides)
    /\ pt.done => Tokenized(pt.text, pt.overrides)

\* the node parsed a text in which a directive with an empty value is
\* followed at once by the next, and in which a key occurs twice with two
\* values
C19_Witness ==
    /\ pt.done
    /\ \E i \in 1..(Len(FindAll(pt.text)) - 1) :
          /\ Strip(FindAll(pt.text)[i][2], Whitespace) = <<>>
          /\ Spans(pt.text, 1)[i].to = Spans(pt.text, 1)[i + 1].from
    /\ \E i, j \in DOMAIN FindAll(pt.text) :
          /\ i < j
          /\ FindAll(pt.text)[i][1] = FindAll(pt.text)[j][1]
          /\ Strip(FindAll(pt.text)[i][2], Whitespace)
                # Strip(FindAll(pt.text)[j][2], Whitespace)


\* the anchor text of the template without its size directive:
\* --steps 8 --neg tmpl --cfg abc
AnchorWithoutSize ==
    <<"-", "-", "s", "t", "e", "p", "s", " ", "8", " ", "-", "-", "n", "e", "g", " ", "t", "m", "p", "l", " ", "-", "-", "c", "f", "g", " ", "a", "b", "c">>

\* what parse_prompt comes to on the same prompt when the anchor has no
\* size directive
SizeAbsent == MergePrompt(prompt, DirWithAnchor(AnchorWithoutSize))

\* what parse_prompt wrote after the residual of the prompt
WrittenDirectives ==
    LET text == DefaultPrompt(pp.template)
    IN  SubSeq(text, Len(pp.prompt) + 1, Len(text))

\* C20: a size directive of the template anchor alone changes nothing:
\* width and height are what they are without it, the size step changes
\* them only when the user prompt has a size directive, and size is no
\* entry of the table nor of the directives written into the anchor
C20_TemplateSizeInert ==
    pp.done /\ pp.raised = "" =>
        /\ K_size \notin DOMAIN pp.overrides => pp.sized = pp.merged
        /\ K_size \in DOMAIN pp.first /\ DOMAIN templates = {Txt2imgJson} =>
              \E absent \in {SizeAbsent} :
                  /\ absent.raised = ""
                  /\ pp.final_dict[K_width] = absent.sized[K_width]
                  /\ pp.final_dict[K_height] = absent.sized[K_height]
        /\ K_size \notin DOMAIN pp.final_dict
        /\ K_size \notin KeysIn(WrittenDirectives)

\* the template has a well-formed size of 64x64, the user prompt has no
\* size, and width and height are 512
C20_Witness ==
    /\ pp.done /\ pp.raised = ""
    /\ K_size \in DOMAIN pp.first /\ WellFormedSize(pp.first[K_size])
    /\ K_size \notin DOMAIN pp.overrides
    /\ pp.overrides # EmptyDict
    /\ pp.final_dict[K_width] = IntV(512) /\ pp.final_dict[K_height] = IntV(512)


\* the resolver has run on value, and ret is what it returned
Resolved(value, load, ret) ==
    /\ load = LoadFileAsBase64(value, load.net)
    /\ load.raised = ""
    /\ ret = StrV(load.ret)
    /\ load.ret = <<>> \/ IsBase64(load.ret)

\* C21: parse_prompt never calls the file resolver: its file entry is the
\* raw string of the user's directive, else of the template's, else the
\* default, and no fetch or read is made for it; parse_text passes its
\* file entry through the resolver, and the file it returns is a base64
\* payload or the empty string
C21_ResolverOnlyInNode ==
    /\ pp.done /\ pp.raised = "" =>
          /\ pp.final_dict[K_file] =
                 StrV(IF K_file \in DOMAIN pp.overrides THEN pp.overrides[K_file]
                      ELSE IF K_file \in DOMAIN pp.first THEN pp.first[K_file]
                      ELSE PromptDefaults[K_file].v)
          /\ "load" \notin DOMAIN pp
          /\ ~lf.done
    /\ pt.done =>
          /\ Resolved(pt.appended[K_file].v, pt.load, pt.final_dict[K_file])
          /\ \A i \in DOMAIN ReturnKeys :
                ReturnKeys[i] = K_file => pt.ret[i] = pt.final_dict[K_file]

\* parse_prompt left the path of the user as it was given, over a template
\* with a file of its own, and the node that ran on its result read the
\* file and returned the base64 of its bytes
C21_Witness ==
    /\ op = "parse_prompt" /\ pp.done /\ pt.done
    /\ K_file \in DOMAIN pp.first
    /\ pp.final_dict[K_file] = StrV(<<"/", "t", "m", "p", "/", "x">>)
    /\ pt.load.tried = <<"exists", "open">>
    /\ pt.final_dict[K_file] = StrV(B64Encode(LocalBytes))


\* C22: two saves of the same timestamped base path that run interleaved
\* never write one path both: every path one of them wrote is a path the
\* other did not write
C22_NoPathWrittenTwice ==
    Range(sv.written) \cap Range(peer.sv.written) = {}

====
